---- MODULE Spec2Model ----
(***************************************************************************)
(* SABR Monte-Carlo option pricers of HW3/option_models/sabr.py.           *)
(*                                                                         *)
(* Reals are binary fixed-point numbers: the integer x stands for x / ONE. *)
(* Every arithmetic step rounds to the nearest representable number, as    *)
(* the floating-point operations of the program do.  The process-wide      *)
(* random generator is its position rng (normals drawn so far); the values *)
(* it hands out are a nondeterministic stream z[1], z[2], ... read in the  *)
(* order the program reads them.  The closed-form pricers of pyfeng are    *)
(* outside the repository: a call to one is recorded with its arguments.   *)
(***************************************************************************)
EXTENDS Integers, Sequences, FiniteSets

VARIABLES inst, rng, pc, call, ret

vars == <<inst, rng, pc, call, ret>>

\* ------------------------------------------------------------------ bounds
MaxNPath == 2
MaxRng == 6
MaxStrikeQ == 6
MaxRows == 7

\* ------------------------------------------------------- fixed-point reals
ONE == 2^10
Half == ONE \div 2
Quarter == ONE \div 4
\* no exception raised
None == "None"
\* an optional argument: <<>> when left out, <<v>> when given
Absent == <<>>
Given(v) == <<v>>
Opt(S) == {Absent} \cup {Given(v) : v \in S}
OrDefault(arg, default) == IF arg = Absent THEN default ELSE arg[1]

Fx(n) == n * ONE

\* a / n for an integer n > 0, rounded to nearest
DivInt(a, n) == (2 * a + n) \div (2 * n)

\* a * b, rounded to nearest (a is split so that the product stays in range)
Mul(a, b) == (a \div ONE) * b + ((a % ONE) * b + Half) \div ONE

\* a / b for b # 0, rounded to nearest
Div(a, b) == IF b > 0 THEN (2 * a * ONE + b) \div (2 * b)
                      ELSE (2 * (-a) * ONE + (-b)) \div (2 * (-b))

Max(a, b) == IF a >= b THEN a ELSE b

RECURSIVE SqrtIter(_, _, _)
SqrtIter(v, lo, hi) ==
    IF lo >= hi THEN lo
    ELSE LET mid == (lo + hi + 1) \div 2
         IN  IF mid * mid <= v THEN SqrtIter(v, mid, hi)
                               ELSE SqrtIter(v, lo, mid - 1)

\* np.sqrt of a >= 0
Sqrt(a) == SqrtIter(a * ONE, 0, 46340)

RECURSIVE ExpTaylor(_, _, _, _)
ExpTaylor(f, term, k, acc) ==
    IF term = 0 \/ k > 16 THEN acc
    ELSE ExpTaylor(f, DivInt(Mul(term, f), k), k + 1, acc + term)

\* e, as the series gives it
EulerE == ExpTaylor(ONE, ONE, 1, 0)

RECURSIVE ExpInt(_)
ExpInt(n) ==
    IF n = 0 THEN ONE
    ELSE IF n > 0 THEN Mul(ExpInt(n - 1), EulerE)
    ELSE Div(ExpInt(n + 1), EulerE)

\* np.exp: e^(x \div ONE) * e^(fractional part); underflows to 0 far below 0
Exp(x) == Mul(ExpInt(x \div ONE), ExpTaylor(x % ONE, ONE, 1, 0))

\* ----------------------------------------------------------- input domains
Classes == {"ModelBsmMC", "ModelNormMC", "ModelBsmCondMC", "ModelNormCondMC"}
Direct == {"ModelBsmMC", "ModelNormMC"}
Sigmas == {Quarter}
Vovs == {0, Half}
Rhos == {0, -Half}
Betas == {0, Half, ONE}
Intrs == {0, Quarter}
Dts == {Half, ONE}
NPaths == 1..MaxNPath
Texps == {Quarter, ONE + Quarter}
Spots == {ONE}
StrikeVecs == {<<3 * Quarter, 5 * Quarter>>, <<MaxStrikeQ * Quarter, ONE, ONE>>}
Normals == {-ONE, ONE}

Raise(exc, n) == [raised |-> exc, draws |-> n]

\* ------------------------------------------------------------ ModelABC
\* __init__: an argument left out (None here) takes its default
Construct(cls, sigma, vov, rho, beta, intr, dt, n_path) ==
    [cls |-> cls,
     sigma |-> sigma,
     vov |-> OrDefault(vov, 0),
     rho |-> OrDefault(rho, 0),
     beta |-> OrDefault(beta, ONE),
     intr |-> OrDefault(intr, 0),
     dt |-> dt,
     n_path |-> n_path]

Pricer(kind, sigma, intr) == [kind |-> kind, sigma |-> sigma, intr |-> intr]

\* mutant: the two branches exchanged
base_model_swapped(self, sigma) ==
    LET s == OrDefault(sigma, self.sigma)
    IN  IF self.beta = 0 THEN [raised |-> None, value |-> Pricer("Bsm", s, self.intr)]
        ELSE IF self.beta = ONE THEN [raised |-> None, value |-> Pricer("Norm", s, self.intr)]
        ELSE [raised |-> "ValueError", value |-> Absent]

\* mutant: the else branch falls back to the log-normal pricer
base_model_noraise(self, sigma) ==
    LET s == OrDefault(sigma, self.sigma)
    IN  IF self.beta = 0 THEN [raised |-> None, value |-> Pricer("Norm", s, self.intr)]
        ELSE [raised |-> None, value |-> Pricer("Bsm", s, self.intr)]

base_model(self, sigma) ==
    LET s == OrDefault(sigma, self.sigma)
    IN  IF self.beta = 0 THEN [raised |-> None, value |-> Pricer("Norm", s, self.intr)]
        ELSE IF self.beta = ONE THEN [raised |-> None, value |-> Pricer("Bsm", s, self.intr)]
        ELSE [raised |-> "ValueError", value |-> Absent]

\* mutant: int(texp / self.dt), the ceiling forgotten
StepCount_floor(texp, dt) == texp \div dt

\* int(np.ceil(texp / self.dt)) for dt > 0: the double quotient of two
\* representable numbers is exact to far below 1/ONE, so the ceiling is taken
\* of the exact quotient, not of a quotient rounded to the grid
StepCount(texp, dt) == -((-texp) \div dt)

n_dt_of(self, texp) == StepCount(texp, self.dt)

\* np.arange(1, n_dt + 1) / n_dt * texp
Grid(n_dt, texp) == [k \in 1..n_dt |-> Mul(Div(Fx(k), Fx(n_dt)), texp)]

\* np.random.standard_normal((rows, cols)): the stream z from position off on
NormalDraws(z, off, rows, cols) ==
    [i \in 1..rows |-> [j \in 1..cols |-> z[off + (i - 1) * cols + j]]]

RECURSIVE CumSum(_, _, _)
CumSum(m, k, j) == IF k = 0 THEN 0 ELSE CumSum(m, k - 1, j) + m[k][j]

\* mutant: the exponential forgotten
VolMultiplier_noexp(vov, Zkj, t) == Mul(vov, Zkj - Mul(DivInt(vov, 2), t))

\* np.exp(self.vov * (Z_t - self.vov/2 * tobs[:, None]))
VolMultiplier(vov, Zkj, t) == Exp(Mul(vov, Zkj - Mul(DivInt(vov, 2), t)))

\* np.insert(sigma_t, 0, np.ones(...), axis=0)
InsertOnes(sigma_t, n_path) == <<[j \in 1..n_path |-> ONE]>> \o sigma_t

sigma_path(self, texp, z, off) ==
    LET n_dt == n_dt_of(self, texp)
    IN  IF n_dt = 0 THEN Raise("ZeroDivisionError", 0)
        ELSE
        LET tobs == Grid(n_dt, texp)
            dt == Div(texp, Fx(n_dt))
            incr == [i \in 1..n_dt |-> [j \in 1..self.n_path |->
                        Mul(NormalDraws(z, off, n_dt, self.n_path)[i][j], Sqrt(dt))]]
            Z_t == [k \in 1..n_dt |-> [j \in 1..self.n_path |-> CumSum(incr, k, j)]]
            sigma_t == [k \in 1..n_dt |-> [j \in 1..self.n_path |->
                        VolMultiplier(self.vov, Z_t[k][j], tobs[k])]]
        IN  IF texp # tobs[n_dt] THEN Raise("AssertionError", 0)
            ELSE [raised |-> None, draws |-> n_dt * self.n_path, n_dt |-> n_dt,
                  tobs |-> tobs, dt |-> dt, value |-> InsertOnes(sigma_t, self.n_path)]

RECURSIVE SeqSum(_, _)
SeqSum(s, k) == IF k = 0 THEN 0 ELSE SeqSum(s, k - 1) + s[k]

\* mutant: the weights are not normalised
Weights_raw(r) == [k \in 1..r |-> IF k = 1 \/ k = r THEN Half ELSE ONE]

\* weight = np.ones(r); weight[[0, -1]] = 0.5; weight /= weight.sum()
Weights(r) ==
    LET w == [k \in 1..r |-> IF k = 1 \/ k = r THEN Half ELSE ONE]
    IN  [k \in 1..r |-> Div(w[k], SeqSum(w, r))]

intvar_normalized(path) ==
    LET r == Len(path)
        weight == Weights(r)
    IN  [j \in 1..Len(path[1]) |->
            SeqSum([k \in 1..r |-> Mul(weight[k], Mul(path[k][j], path[k][j]))], r)]

\* mutant: the sign cp dropped from the payoff
Payoff_call(cp, S, K) == Max(S - K, 0)

\* df * np.mean(np.fmax(cp*(S_t - strike[:, None]), 0.0), axis=1)
Payoff(cp, S, K) == Max(cp * (S - K), 0)

DiscountedMean(df, cp, S_t, strike) ==
    [i \in 1..Len(strike) |->
        Mul(df, DivInt(SeqSum([j \in 1..Len(S_t) |-> Payoff(cp, S_t[j], strike[i])],
                              Len(S_t)), Len(S_t)))]

\* self.sigma * np.sqrt((1 - self.rho ** 2) * I_t)
EquivVol(self, I) == Mul(self.sigma, Sqrt(Mul(ONE - Mul(self.rho, self.rho), I)))

\* (1 / self.vov) * (sigma_t - 1.0) - 0.5 * self.sigma * self.rho * texp * I_t,
\* then np.exp(self.rho * self.sigma * s_t, out=s_t)
BsmShift(self, texp, sT, I) ==
    Exp(Mul(Mul(self.rho, self.sigma),
            Mul(Div(ONE, self.vov), sT - ONE)
              - Mul(Mul(Mul(Mul(Half, self.sigma), self.rho), texp), I)))

\* np.random.standard_normal(n): n values of the stream z from position off on
NormalVec(z, off, n) == [j \in 1..n |-> z[off + j]]

\* np.exp(-self.intr * texp)
DiscountFactor(self, texp) == Exp(Mul(-self.intr, texp))

\* ---------------------------------------------------------- ModelBsmMC
ModelBsmMC_price(self, strike, spot, texp, cp, z) ==
    LET sp == sigma_path(self, texp, z, 0)
    IN  IF sp.raised # None THEN sp
        ELSE
        LET n == self.n_path
            sigma_t == sp.value[sp.n_dt + 1]
            I_t == intvar_normalized(sp.value)
            Z == NormalVec(z, sp.draws, n)
            drawn == sp.draws + n
        IN  IF self.vov = 0 THEN Raise("ZeroDivisionError", drawn)
            ELSE
            LET s_t == [j \in 1..n |-> BsmShift(self, texp, sigma_t[j], I_t[j])]
                vol == [j \in 1..n |-> EquivVol(self, I_t[j])]
                volt == [j \in 1..n |-> Mul(vol[j], Sqrt(texp))]
                S_t == [j \in 1..n |->
                          Mul(Mul(s_t[j], spot),
                              Exp(Mul(volt[j], Z[j] - DivInt(volt[j], 2))))]
                df == DiscountFactor(self, texp)
            IN  [raised |-> None, draws |-> drawn, n_dt |-> sp.n_dt, df |-> df,
                 spots |-> S_t, pricer |-> "payoff",
                 value |-> DiscountedMean(df, cp, S_t, strike)]

\* --------------------------------------------------------- ModelNormMC
ModelNormMC_price(self, strike, spot, texp, cp, z) ==
    LET sp == sigma_path(self, texp, z, 0)
    IN  IF sp.raised # None THEN sp
        ELSE
        LET n == self.n_path
            sigma_t == sp.value[sp.n_dt + 1]
            I_t == intvar_normalized(sp.value)
            df == DiscountFactor(self, texp)
            \* line 152 draws n normals that line 157 replaces
            unused == NormalVec(z, sp.draws, n)
        IN  IF self.vov = 0 THEN Raise("ZeroDivisionError", sp.draws + n)
            ELSE
            LET s_t == [j \in 1..n |->
                          Mul(Mul(Div(self.rho, self.vov), sigma_t[j] - ONE), self.sigma)]
                Z == NormalVec(z, sp.draws + n, n)
                vol == [j \in 1..n |-> EquivVol(self, I_t[j])]
                volt == [j \in 1..n |-> Mul(vol[j], Sqrt(texp))]
                S_t == [j \in 1..n |-> s_t[j] + Div(spot, df) + Mul(volt[j], Z[j])]
            IN  [raised |-> None, draws |-> sp.draws + 2 * n, n_dt |-> sp.n_dt, df |-> df,
                 spots |-> S_t, pricer |-> "payoff",
                 value |-> DiscountedMean(df, cp, S_t, strike)]

\* np.mean(m.price(strike[:, None], spot, texp, cp), axis=1): the closed-form
\* pricer m is pyfeng's; each entry records the call that produces it
ClosedFormMean(m, strike, spots, texp, cp) ==
    [i \in 1..Len(strike) |->
        [model |-> m, strike |-> strike[i], spot |-> spots, texp |-> texp, cp |-> cp]]

\* ------------------------------------------------------ ModelBsmCondMC
ModelBsmCondMC_price(self, strike, spot, texp, cp, z) ==
    LET sp == sigma_path(self, texp, z, 0)
    IN  IF sp.raised # None THEN sp
        ELSE
        LET n == self.n_path
            sigma_t == sp.value[sp.n_dt + 1]
            I_t == intvar_normalized(sp.value)
            vol == [j \in 1..n |-> EquivVol(self, I_t[j])]
            volt == [j \in 1..n |-> Mul(vol[j], Sqrt(texp))]
            df == DiscountFactor(self, texp)
        IN  IF self.vov = 0 THEN Raise("ZeroDivisionError", sp.draws)
            ELSE
            LET s_t == [j \in 1..n |-> BsmShift(self, texp, sigma_t[j], I_t[j])]
                c_f_spot == [j \in 1..n |-> Div(Mul(s_t[j], spot), df)]
                Z == NormalVec(z, sp.draws, n)
                spot_equiv == [j \in 1..n |->
                          Mul(c_f_spot[j], Exp(Mul(volt[j], Z[j] - DivInt(volt[j], 2))))]
                m == base_model(self, Given(vol))
            IN  IF m.raised # None THEN Raise(m.raised, sp.draws + n)
                ELSE [raised |-> None, draws |-> sp.draws + n, n_dt |-> sp.n_dt, df |-> df,
                      spots |-> spot_equiv, pricer |-> m.value.kind,
                      value |-> ClosedFormMean(m.value, strike, spot_equiv, texp, cp)]

\* mutant: the normal-conditional pricer with the correlation shift of the
\* log-normal one
ModelNormCondMC_price_shift(self, strike, spot, texp, cp, z) ==
    ModelBsmCondMC_price(self, strike, spot, texp, cp, z)

\* ----------------------------------------------------- ModelNormCondMC
ModelNormCondMC_price(self, strike, spot, texp, cp, z) ==
    LET sp == sigma_path(self, texp, z, 0)
    IN  IF sp.raised # None THEN sp
        ELSE
        LET n == self.n_path
            sigma_t == sp.value[sp.n_dt + 1]
            I_t == intvar_normalized(sp.value)
            vol == [j \in 1..n |-> EquivVol(self, I_t[j])]
            Z == NormalVec(z, sp.draws, n)
            S_T == [j \in 1..n |->
                      spot + Mul(sigma_t[j], Sqrt(I_t[j]))
                           + Mul(Mul(sigma_t[j], Sqrt(texp)), Z[j])]
            m == base_model(self, Given(vol))
        IN  IF m.raised # None THEN Raise(m.raised, sp.draws + n)
            ELSE [raised |-> None, draws |-> sp.draws + n, n_dt |-> sp.n_dt,
                  df |-> DiscountFactor(self, texp),
                  spots |-> S_T, pricer |-> m.value.kind,
                  value |-> ClosedFormMean(m.value, strike, S_T, texp, cp)]

\* self.price(...): the method of the instance's class
price(self, strike, spot, texp, cp, z) ==
    CASE self.cls = "ModelBsmMC" -> ModelBsmMC_price(self, strike, spot, texp, cp, z)
      [] self.cls = "ModelNormMC" -> ModelNormMC_price(self, strike, spot, texp, cp, z)
      [] self.cls = "ModelBsmCondMC" -> ModelBsmCondMC_price(self, strike, spot, texp, cp, z)
      [] self.cls = "ModelNormCondMC" -> ModelNormCondMC_price(self, strike, spot, texp, cp, z)

\* normals one price call reads when nothing raises
PriceDraws(self, texp) ==
    n_dt_of(self, texp) * self.n_path
      + (IF self.cls = "ModelNormMC" THEN 2 ELSE 1) * self.n_path

\* the arguments vol_smile hands to self.price and to impvol
SmilePriceArgs(strike, spot, texp) ==
    [strike |-> strike, spot |-> spot, texp |-> texp, cp |-> 1]

\* mutant: impvol called with its default texp
SmileSolverArgs_texp(pr, strike, spot, texp) ==
    [price |-> pr, strike |-> strike, spot |-> spot, texp |-> ONE, cp |-> 1]

SmileSolverArgs(pr, strike, spot, texp) ==
    [price |-> pr, strike |-> strike, spot |-> spot, texp |-> texp, cp |-> 1]

\* vol_smile(self, strike, spot, texp=1.0): the signature has no sign, so a
\* call that passes one is rejected by the interpreter before the body runs
vol_smile(self, strike, spot, texp, sign, z) ==
    IF sign # Absent THEN Raise("TypeError", 0)
    ELSE
    LET a == SmilePriceArgs(strike, spot, texp)
        pr == price(self, a.strike, a.spot, a.texp, a.cp, z)
    IN  IF pr.raised # None THEN Raise(pr.raised, pr.draws)
        ELSE
        LET m == base_model(self, Absent)
        IN  IF m.raised # None THEN Raise(m.raised, pr.draws)
            ELSE [raised |-> None, draws |-> pr.draws, priceCall |-> a,
                  price |-> pr.value, solver |-> m.value,
                  solverCall |-> SmileSolverArgs(pr.value, strike, spot, texp)]

\* -------------------------------------------------------- state machine
NoCall == [op |-> "none"]
NoRet == [raised |-> None, draws |-> 0]

\* np.ones((r, n)): the volatility path of a constant-volatility model
OnesPath(r, n) == [k \in 1..r |-> [j \in 1..n |-> ONE]]

Streams(n) == [1..n -> Normals]

TypeOK ==
    /\ inst.cls \in Classes
    /\ rng \in 0..MaxRng
    /\ pc \in {"ready", "done"}

\* the arrays intvar_normalized may be handed: a constant path of any length,
\* or the path sigma_path has just returned
PathInputs ==
    {OnesPath(r, inst.n_path) : r \in 1..MaxRows}
      \cup (IF pc = "done" /\ call.op = "sigma_path" /\ ret.raised = None
            THEN {ret.value} ELSE {})

\* the state after construction: any instance __init__ accepts, with the
\* numerical parameters dt and n_path set on it, and a fresh generator
Init ==
    /\ \E cls \in Classes, sigma \in Sigmas, vov \in Opt(Vovs), rho \in Opt(Rhos),
          beta \in Opt(Betas), intr \in Opt(Intrs), dt \in Dts, n_path \in NPaths :
          inst = Construct(cls, sigma, vov, rho, beta, intr, dt, n_path)
    /\ rng = 0
    /\ pc = "ready"
    /\ call = NoCall
    /\ ret = NoRet

BaseModel(sigma) ==
    /\ pc = "ready"
    /\ call' = [op |-> "base_model", sigma |-> sigma]
    /\ ret' = base_model(inst, sigma)
    /\ pc' = "done"
    /\ UNCHANGED <<inst, rng>>

SigmaPath(texp) ==
    /\ pc = "ready"
    /\ rng + n_dt_of(inst, texp) * inst.n_path <= MaxRng
    /\ \E z \in Streams(n_dt_of(inst, texp) * inst.n_path) :
          ret' = sigma_path(inst, texp, z, 0)
    /\ call' = [op |-> "sigma_path", texp |-> texp]
    /\ rng' = rng + ret'.draws
    /\ pc' = "done"
    /\ UNCHANGED inst

IntvarNormalized(path) ==
    /\ \/ pc = "ready" /\ \E r \in 1..MaxRows : path = OnesPath(r, inst.n_path)
       \/ pc = "done" /\ call.op = "sigma_path" /\ ret.raised = None /\ path = ret.value
    /\ call' = [op |-> "intvar_normalized", sigma_path |-> path]
    /\ ret' = [raised |-> None, draws |-> 0, value |-> intvar_normalized(path)]
    /\ pc' = "done"
    /\ UNCHANGED <<inst, rng>>

Price(strike, spot, texp, cp) ==
    /\ pc = "ready"
    /\ rng + PriceDraws(inst, texp) <= MaxRng
    /\ \E z \in Streams(PriceDraws(inst, texp)) :
          ret' = price(inst, strike, spot, texp, cp, z)
    /\ call' = [op |-> "price", strike |-> strike, spot |-> spot, texp |-> texp,
                cp |-> cp]
    /\ rng' = rng + ret'.draws
    /\ pc' = "done"
    /\ UNCHANGED inst

VolSmile(strike, spot, texp, sign) ==
    /\ pc = "ready"
    /\ LET need == IF sign = Absent THEN PriceDraws(inst, texp) ELSE 0
       IN  /\ rng + need <= MaxRng
           /\ \E z \in Streams(need) :
                 ret' = vol_smile(inst, strike, spot, texp, sign, z)
    /\ call' = [op |-> "vol_smile", strike |-> strike, spot |-> spot, texp |-> texp,
                sign |-> sign]
    /\ rng' = rng + ret'.draws
    /\ pc' = "done"
    /\ UNCHANGED inst

\* the caller takes the result (or catches the exception) and goes on
Return ==
    /\ pc = "done"
    /\ pc' = "ready"
    /\ call' = NoCall
    /\ ret' = NoRet
    /\ UNCHANGED <<inst, rng>>

Next ==
    \/ \E sigma \in Opt({Half}) : BaseModel(sigma)
    \/ \E texp \in Texps : SigmaPath(texp)
    \/ \E path \in PathInputs : IntvarNormalized(path)
    \/ \E strike \in StrikeVecs, spot \in Spots, texp \in Texps, cp \in {1, -1} :
          Price(strike, spot, texp, cp)
    \/ \E strike \in StrikeVecs, spot \in Spots, texp \in Texps, sign \in Opt({1, -1}) :
          VolSmile(strike, spot, texp, sign)
    \/ Return

Spec == Init /\ [][Next]_vars

\* ------------------------------------------------------------- properties
Abs(a) == IF a >= 0 THEN a ELSE -a
Done(op) == pc = "done" /\ call.op = op
Returned(op) == Done(op) /\ ret.raised = None
Supported == {0, ONE}
Cond == Classes \ Direct
\* the ceiling of texp / dt, in integers
CeilDiv(texp, dt) == (texp + dt - 1) \div dt
AllOnes(path) == \A k \in 1..Len(path) : \A j \in 1..Len(path[k]) : path[k][j] = ONE
IsPowerOfTwo(n) == \E e \in 0..10 : n = 2^e

\* C1: base_model returns the normal pricer for beta = 0 and the log-normal
\* pricer for beta = 1, each built with the volatility given (the instance's
\* sigma when none is given) and the instance's intr; for any other beta it
\* raises ValueError and returns no pricer.
C1_BaseModelSelects ==
    Done("base_model") =>
        LET vol == IF call.sigma = Absent THEN inst.sigma ELSE call.sigma[1]
        IN  /\ inst.beta = 0 =>
                 /\ ret.raised = None
                 /\ ret.value = [kind |-> "Norm", sigma |-> vol, intr |-> inst.intr]
            /\ inst.beta = ONE =>
                 /\ ret.raised = None
                 /\ ret.value = [kind |-> "Bsm", sigma |-> vol, intr |-> inst.intr]
            /\ inst.beta \notin Supported =>
                 /\ ret.raised = "ValueError"
                 /\ ret.value = Absent

C1_Witness ==
    /\ Returned("base_model")
    /\ inst.beta = 0
    /\ call.sigma = Given(Half)
    /\ inst.sigma # Half
    /\ ret.value.kind = "Norm"
    /\ ret.value.sigma = Half

\* C2: every price call on ModelNormCondMC that returns has evaluated the
\* closed-form normal model, however the instance was constructed.
C2_NormCondUsesNormal ==
    (Returned("price") /\ inst.cls = "ModelNormCondMC") => ret.pricer = "Norm"

\* C3 (as claimed): with beta outside {0, 1}, every price call and every
\* vol_smile call, on each of the four variants, ends in the
\* unsupported-parameter error (calls that another error pre-empts, vov = 0 or
\* a sign handed to vol_smile, left aside).
C3_EveryCallRaises ==
    (/\ pc = "done"
     /\ call.op \in {"price", "vol_smile"}
     /\ inst.beta \notin Supported
     /\ inst.vov # 0
     /\ call.op = "vol_smile" => call.sign = Absent)
        => ret.raised = "ValueError"

\* C3 (amended): with beta outside {0, 1}, vol_smile on each of the four
\* variants and price on the two conditional variants return no result: they
\* end in ValueError, or in the ZeroDivisionError of vov = 0 where that comes
\* first (every variant but ModelNormCondMC).  price on the two direct variants
\* never consults beta: with vov # 0 it returns one price per strike.
C3_ErrorWhereBaseModelIsUsed ==
    (pc = "done" /\ inst.beta \notin Supported) =>
        LET divides == inst.vov = 0 /\ inst.cls # "ModelNormCondMC"
            usesBase == \/ call.op = "vol_smile" /\ call.sign = Absent
                        \/ call.op = "price" /\ inst.cls \in Cond
        IN  /\ usesBase =>
                 ret.raised = (IF divides THEN "ZeroDivisionError" ELSE "ValueError")
            /\ (call.op = "price" /\ inst.cls \in Direct /\ inst.vov # 0) =>
                 /\ ret.raised = None
                 /\ Len(ret.value) = Len(call.strike)

C3_Witness ==
    /\ Returned("price")
    /\ inst.cls = "ModelBsmMC"
    /\ inst.beta = Half
    /\ Len(ret.value) = Len(call.strike)

\* C4 (as claimed): with vov = 0 (and a supported beta), a price call on any
\* of the four variants hits a division by zero and returns no price vector.
C4_EveryVariantDivides ==
    (Done("price") /\ inst.vov = 0 /\ inst.beta \in Supported)
        => ret.raised = "ZeroDivisionError"

\* C4 (amended): with vov = 0, a price call on ModelBsmMC, ModelNormMC and
\* ModelBsmCondMC ends in ZeroDivisionError and returns no price vector;
\* ModelNormCondMC.price never divides by vov: it returns one entry per strike
\* when beta is 0 or 1 and ends in ValueError otherwise.
C4_ThreeVariantsDivide ==
    (Done("price") /\ inst.vov = 0) =>
        IF inst.cls # "ModelNormCondMC"
        THEN ret.raised = "ZeroDivisionError"
        ELSE IF inst.beta \in Supported
             THEN ret.raised = None /\ Len(ret.value) = Len(call.strike)
             ELSE ret.raised = "ValueError"

C4_Witness ==
    /\ Returned("price")
    /\ inst.cls = "ModelNormCondMC"
    /\ inst.vov = 0
    /\ Len(ret.value) = Len(call.strike)

\* C5: for texp > 0 and dt > 0, sigma_path's step count is the ceiling of
\* texp / dt and at least 1, the grid has n_dt points spaced texp / n_dt apart
\* (to the rounding of the arithmetic), its last point is exactly texp, and so
\* neither the assertion fails nor a division by a zero step count happens,
\* in sigma_path itself or in a price or vol_smile call that runs it.
C5_GridEndsAtTexp ==
    /\ Done("sigma_path") =>
         /\ ret.raised = None
         /\ ret.n_dt >= 1
         /\ ret.n_dt = CeilDiv(call.texp, inst.dt)
         /\ Len(ret.tobs) = ret.n_dt
         /\ ret.tobs[ret.n_dt] = call.texp
         /\ Abs(ret.dt * ret.n_dt - call.texp) <= ret.n_dt
         /\ \A k \in 1..ret.n_dt :
               Abs(ret.tobs[k] - (IF k = 1 THEN 0 ELSE ret.tobs[k - 1]) - ret.dt) <= 2
    /\ pc = "done" => ret.raised # "AssertionError"
    /\ (pc = "done" /\ inst.vov # 0) => ret.raised # "ZeroDivisionError"

C5_Witness ==
    /\ Returned("sigma_path")
    /\ call.texp < inst.dt
    /\ ret.n_dt = 1
    /\ ret.tobs = <<call.texp>>

\* C6: every result of sigma_path has n_dt + 1 rows of n_path entries, its
\* first row is 1.0 in every column whatever was drawn, and every entry is
\* strictly positive.
C6_PathShapeAndSign ==
    Returned("sigma_path") =>
        /\ Len(ret.value) = CeilDiv(call.texp, inst.dt) + 1
        /\ \A k \in 1..Len(ret.value) :
              /\ Len(ret.value[k]) = inst.n_path
              /\ \A j \in 1..inst.n_path : ret.value[k][j] > 0
        /\ \A j \in 1..inst.n_path : ret.value[1][j] = ONE

C6_Witness ==
    /\ Returned("sigma_path")
    /\ Len(ret.value) = 4
    /\ \E j \in 1..inst.n_path : ret.value[4][j] < ONE
    /\ \E k \in 2..4 : \E j \in 1..inst.n_path : ret.value[k][j] > ONE

\* C7 (as claimed): for a path of r >= 2 rows whose entries are all 1,
\* intvar_normalized returns exactly 1 for every column.
C7_ConstantPathGivesExactlyOne ==
    (Done("intvar_normalized") /\ Len(call.sigma_path) >= 2 /\ AllOnes(call.sigma_path))
        => \A j \in 1..Len(ret.value) : ret.value[j] = ONE

TrapezoidSum(path, j) ==
    SeqSum([k \in 1..Len(path) |->
               (IF k = 1 \/ k = Len(path) THEN 1 ELSE 2) * Mul(path[k][j], path[k][j])],
           Len(path))

\* C7 (amended): intvar_normalized returns one value per column; that value is,
\* to the rounding of the weights, the trapezoidal mean of the squared column
\* (endpoints 1/2, interior 1, divided by the weight sum r - 1); for a path of
\* r >= 2 rows whose entries are all 1 it is 1 to that rounding, and exactly 1
\* when r - 1 is a power of two (the normalised weights are then exact).
C7_TrapezoidToRounding ==
    (Done("intvar_normalized") /\ Len(call.sigma_path) >= 2) =>
        LET path == call.sigma_path
            r == Len(path)
        IN  /\ Len(ret.value) = Len(path[1])
            /\ \A j \in 1..Len(ret.value) :
                  Abs(2 * (r - 1) * ret.value[j] - TrapezoidSum(path, j))
                     <= (r - 1) * (r + TrapezoidSum(path, j) \div ONE)
            /\ AllOnes(path) =>
                  \A j \in 1..Len(ret.value) :
                     /\ Abs(ret.value[j] - ONE) <= r
                     /\ IsPowerOfTwo(r - 1) => ret.value[j] = ONE

C7_Witness ==
    /\ Done("intvar_normalized")
    /\ Len(call.sigma_path) = 7
    /\ AllOnes(call.sigma_path)
    /\ ret.value[1] # ONE

\* C8: a price call on a direct simulator returns one price per strike, in
\* the order of the strikes and from one set of terminal spots (equal strikes
\* get equal prices); for strikes K1 <= K2 the price at K1 is >= the price at
\* K2 for cp = +1 and <= it for cp = -1; with a positive discount factor every
\* price is >= 0.
C8_PricesMonotoneInStrike ==
    (Returned("price") /\ inst.cls \in Direct) =>
        /\ Len(ret.value) = Len(call.strike)
        /\ Len(ret.spots) = inst.n_path
        /\ \A i, k \in 1..Len(call.strike) :
              call.strike[i] <= call.strike[k] =>
                 IF call.cp = 1 THEN ret.value[i] >= ret.value[k]
                                ELSE ret.value[i] <= ret.value[k]
        /\ ret.df > 0 => \A i \in 1..Len(ret.value) : ret.value[i] >= 0

C8_Witness ==
    /\ Returned("price")
    /\ inst.cls = "ModelNormMC"
    /\ call.cp = -1
    /\ ret.df > 0
    /\ ret.df < ONE
    /\ \E i, k \in 1..Len(call.strike) :
          call.strike[i] < call.strike[k] /\ ret.value[i] < ret.value[k]

\* C9 (as claimed): vol_smile takes a sign with strikes, spot and texp, and
\* for sign = -1 both the price and the inversion are done for puts.
C9_SmileHonoursSign ==
    (Done("vol_smile") /\ call.sign = Given(-1) /\ inst.beta \in Supported
       /\ inst.vov # 0) =>
        /\ ret.raised = None
        /\ ret.priceCall.cp = -1
        /\ ret.solverCall.cp = -1

\* C9 (amended): vol_smile takes strikes, spot and texp and no sign (a call
\* that hands it one ends in TypeError before anything is priced or drawn).
\* Whenever it returns, it has called price with exactly those three
\* arguments and cp = +1, and has handed that price with the same strikes,
\* spot, texp and cp = +1 to the implied-vol solver of the base model that the
\* instance's beta selects, built with the instance's sigma and intr.
C9_SmileIsCallsOnly ==
    Done("vol_smile") =>
        /\ call.sign # Absent => ret.raised = "TypeError" /\ ret.draws = 0
        /\ ret.raised = None =>
              /\ call.sign = Absent
              /\ ret.priceCall = [strike |-> call.strike, spot |-> call.spot,
                                  texp |-> call.texp, cp |-> 1]
              /\ ret.solverCall = [price |-> ret.price, strike |-> call.strike,
                                   spot |-> call.spot, texp |-> call.texp, cp |-> 1]
              /\ Len(ret.price) = Len(call.strike)
              /\ ret.solver = [kind |-> IF inst.beta = 0 THEN "Norm" ELSE "Bsm",
                               sigma |-> inst.sigma, intr |-> inst.intr]
              /\ inst.beta \in Supported

C9_Witness ==
    /\ Returned("vol_smile")
    /\ call.texp # ONE
    /\ ret.solverCall.texp = call.texp
    /\ ret.solver.kind = "Norm"

\* C10: one price call of a direct simulator advances the generator by
\* exactly (n_dt + 1) * n_path normals, so both direct variants leave it in
\* the same state.
C10_DirectDrawCount ==
    [][(/\ pc = "ready"
        /\ pc' = "done"
        /\ call'.op = "price"
        /\ inst.cls \in Direct)
          => rng' = rng + (CeilDiv(call'.texp, inst.dt) + 1) * inst.n_path]_vars

====
